---- MODULE Spec2Model ----
(***************************************************************************)
(* Reference Automator (src/main.ts): the two-line text encoding of a      *)
(* reference record, its decoding by the edit form, the status cycle, and  *)
(* the insert / replace / delete edits of a document.                      *)
(*                                                                         *)
(* Text is a sequence of tokens.  A token is one character ("#", "|", "[", *)
(* " ", ...), one glyph ("@page" is the page emoji, "@STAR" the filled     *)
(* star, "@star" the empty star, "@circle" the white circle), or one word  *)
(* of letters ("Video", "References", ".md").  No operation of the program *)
(* looks inside a word or a glyph, so the string operations of the source  *)
(* (trim, split, startsWith, includes, the regular expressions) are the    *)
(* same operations on token sequences.  A document is the sequence of its  *)
(* lines (doc.split('\n')); the editor always holds at least one line.     *)
(* Line numbers are those of the source (from 0); sequences count from 1.  *)
(***************************************************************************)
EXTENDS Integers, Sequences, FiniteSets, TLC

VARIABLES
    doc,        \* the editor buffer: a sequence of lines
    modal,      \* the ReferenceModal: closed, or open with its fields
    notice,     \* the last Notice shown, or the error the last handler threw
    hist,       \* history: the first document and the spans inserted since
    adv         \* the line the status cycle is applied to, on its own

vars == <<doc, modal, notice, hist, adv>>

----------------------------------------------------------------------------
(* String primitives of JavaScript, on token sequences.                    *)

WS == {" "}

MinOf(S) == CHOOSE i \in S : \A j \in S : i <= j

MaxOf(S) == CHOOSE i \in S : \A j \in S : i >= j

\* s.startsWith(p)
StartsWith(s, p) == Len(p) <= Len(s) /\ SubSeq(s, 1, Len(p)) = p

\* s.endsWith(p)
EndsWith(s, p) == Len(p) <= Len(s) /\ SubSeq(s, Len(s) - Len(p) + 1, Len(s)) = p

\* s.includes(p)
Includes(s, p) == \E i \in 1..(Len(s) - Len(p) + 1) : SubSeq(s, i, i + Len(p) - 1) = p

\* s.trim()
Trim(s) ==
    LET keep == {i \in 1..Len(s) : s[i] \notin WS}
    IN  IF keep = {} THEN <<>> ELSE SubSeq(s, MinOf(keep), MaxOf(keep))

\* s.split(sep), sep a single character
RECURSIVE Split(_, _)
Split(s, sep) ==
    LET at == {i \in 1..Len(s) : s[i] = sep}
    IN  IF at = {} THEN <<s>>
        ELSE <<SubSeq(s, 1, MinOf(at) - 1)>> \o Split(SubSeq(s, MinOf(at) + 1, Len(s)), sep)

\* x.repeat(n), n >= 0
Repeat(x, n) == [i \in 1..n |-> x]

\* The last index of the longest run of tokens in X that starts at i (i-1: none).
RunIn(s, i, X) ==
    LET stop == {j \in i..Len(s) : s[j] \notin X}
    IN  IF stop = {} THEN Len(s) ELSE MinOf(stop) - 1

\* The last index of the longest run of tokens not in X that starts at i.
RunNotIn(s, i, X) ==
    LET stop == {j \in i..Len(s) : s[j] \in X}
    IN  IF stop = {} THEN Len(s) ELSE MinOf(stop) - 1

\* Whether the two-token text a b stands at index i of s.
PairAt(s, i, a, b) == i >= 1 /\ i + 1 <= Len(s) /\ s[i] = a /\ s[i + 1] = b

----------------------------------------------------------------------------
(* The enumerations.                                                       *)

TYPE_OPTIONS ==
    << [key |-> "plain-note", label |-> <<"Obsidian", " ", "Note">>, icon |-> "@page"],
       [key |-> "web-page",   label |-> <<"Web", " ", "Page">>,      icon |-> "@globe"],
       [key |-> "video",      label |-> <<"Video">>,                 icon |-> "@camera"],
       [key |-> "course",     label |-> <<"Course">>,                icon |-> "@cap"],
       [key |-> "textbook",   label |-> <<"Textbook">>,              icon |-> "@books"],
       [key |-> "repository", label |-> <<"Repository">>,            icon |-> "@laptop"],
       [key |-> "other",      label |-> <<"Other">>,                 icon |-> "@package"] >>

STATUS_ORDER ==
    << [key |-> "saved",        label |-> <<"Saved/Unprocessed">>,     icon |-> "@inbox"],
       [key |-> "skimmed",      label |-> <<"Skimmed">>,               icon |-> "@glass"],
       [key |-> "in-progress",  label |-> <<"In", " ", "Progress">>,   icon |-> "@cycle"],
       [key |-> "to-review",    label |-> <<"To", " ", "Review">>,     icon |-> "@hourglass"],
       [key |-> "completed",    label |-> <<"Completed">>,             icon |-> "@check"],
       [key |-> "maybe-useful", label |-> <<"Maybe", " ", "Useful">>,  icon |-> "@thinking"],
       [key |-> "needs-review", label |-> <<"Needs", " ", "Review">>,  icon |-> "@bang"] >>

TypeKeys == {TYPE_OPTIONS[i].key : i \in 1..Len(TYPE_OPTIONS)}

StatusKeys == {STATUS_ORDER[i].key : i \in 1..Len(STATUS_ORDER)}

\* Array.prototype.findIndex over a catalogue: the first index (from 0) whose
\* entry satisfies hit, -1 when none does.
FindIndex(catalogue, hit(_)) ==
    LET at == {i \in 1..Len(catalogue) : hit(catalogue[i])}
    IN  IF at = {} THEN -1 ELSE MinOf(at) - 1

getStatusInfo(key) ==
    LET HasKey(s) == s.key = key
        i == FindIndex(STATUS_ORDER, HasKey)
    IN  IF i = -1 THEN STATUS_ORDER[1] ELSE STATUS_ORDER[i + 1]

getTypeInfo(key) ==
    LET HasKey(t) == t.key = key
        i == FindIndex(TYPE_OPTIONS, HasKey)
    IN  IF i = -1 THEN TYPE_OPTIONS[1] ELSE TYPE_OPTIONS[i + 1]

----------------------------------------------------------------------------
(* The vault: the notes getAbstractFileByPath resolves to a TFile.         *)

VaultFiles == { <<"n", ".md">>, <<"d", "/", "m", ".md">> }

\* TFile.basename: the last path segment without its extension.
Basename(path) ==
    LET segs == Split(path, "/")
        name == segs[Len(segs)]
    IN  IF EndsWith(name, <<".md">>) THEN SubSeq(name, 1, Len(name) - 1) ELSE name

\* url.replace(/\.md$/, '')
StripMd(url) == IF EndsWith(url, <<".md">>) THEN SubSeq(url, 1, Len(url) - 1) ELSE url

----------------------------------------------------------------------------
(* Encoding: ReferenceModal.starString and ReferenceModal.buildLine.       *)

\* '★'.repeat(n) + '☆'.repeat(5 - n) throws a RangeError when 5 - n < 0.
starStringThrows(n) == n # 0 /\ 5 - n < 0

\* A faulty variant: five filled stars at most, no empty ones after them.
starStringFilledOnly(n) ==
    IF n = 0 THEN <<"@circle", " ", "Not", " ", "Rated">> ELSE Repeat("@STAR", n)

starString(n) ==
    IF n = 0 THEN <<"@circle", " ", "Not", " ", "Rated">>
    ELSE Repeat("@STAR", n) \o Repeat("@star", 5 - n)

MarkdownLink(data) == <<"[">> \o data.title \o <<"]", "(">> \o data.url \o <<")">>

\* A faulty variant: a note of the vault is linked like any other target.
buildLinkMarkdownOnly(data) == IF data.url # <<>> THEN MarkdownLink(data) ELSE data.title

buildLink(data) ==
    IF data.type = "plain-note" /\ data.url # <<>>
    THEN IF data.url \in VaultFiles
         THEN LET linkPath == StripMd(data.url)
                  noteName == Basename(data.url)
              IN  IF Trim(data.title) = noteName
                  THEN <<"[", "[">> \o linkPath \o <<"]", "]">>
                  ELSE <<"[", "[">> \o linkPath \o <<"|">> \o data.title \o <<"]", "]">>
         ELSE MarkdownLink(data)
    ELSE IF data.url # <<>> THEN MarkdownLink(data) ELSE data.title

\* The two lines of the span: <<header, detail>>.
buildLine(data) ==
    LET typeInfo == getTypeInfo(data.type)
        statusInfo == getStatusInfo(data.status)
    IN  << <<"#", "#", "#", " ">> \o buildLink(data),
           <<typeInfo.icon, " ">> \o typeInfo.label \o <<" ", "|", " ", statusInfo.icon, " ", "*", "*">>
               \o statusInfo.label \o <<"*", "*", " ", "|", " ">> \o starString(data.stars) >>

----------------------------------------------------------------------------
(* Decoding: the prefill of ReferenceModal.onOpen.                         *)

\* The fields of a freshly built form: both selects show their first option,
\* both inputs are empty, currentRating is 0.
BlankForm ==
    [type |-> TYPE_OPTIONS[1].key, title |-> <<>>, url |-> <<>>,
     status |-> STATUS_ORDER[1].key, stars |-> 0]

\* /\[\[([^\]]+)(?:\|([^\]]+))?\]\]/ tried at index i: the ways <<k, m>> it can
\* match, k the length of group 1 and m the length of group 2 (0: the optional
\* group takes no part).
InternalLinkWays(s, i) ==
    LET p == i + 2
        r == RunNotIn(s, p, {"]"})
    IN  { w \in (1..(r - p + 1)) \X (0..Len(s)) :
            LET k == w[1]
                m == w[2]
            IN  IF m = 0 THEN PairAt(s, p + k, "]", "]")
                ELSE /\ p + k <= Len(s)
                     /\ s[p + k] = "|"
                     /\ p + k + m <= RunNotIn(s, p + k + 1, {"]"})
                     /\ PairAt(s, p + k + m + 1, "]", "]") }

\* firstPart.match(/\[\[([^\]]+)(?:\|([^\]]+))?\]\]/): the leftmost match, its
\* groups chosen as the backtracking matcher chooses them (group 1 as long as
\* it can be, then group 2 as long as it can be).  g2 = <<>> is undefined.
InternalLinkMatch(s) ==
    LET starts == {i \in 1..Len(s) : PairAt(s, i, "[", "[") /\ InternalLinkWays(s, i) # {}}
    IN  IF starts = {} THEN [found |-> FALSE, g1 |-> <<>>, g2 |-> <<>>]
        ELSE LET i == MinOf(starts)
                 ways == InternalLinkWays(s, i)
                 k == MaxOf({w[1] : w \in ways})
                 m == MaxOf({w[2] : w \in {v \in ways : v[1] = k}})
             IN  [found |-> TRUE,
                  g1 |-> SubSeq(s, i + 2, i + 1 + k),
                  g2 |-> IF m = 0 THEN <<>> ELSE SubSeq(s, i + 3 + k, i + 2 + k + m)]

\* firstPart.match(/\[([^\]]+)\]\((.*?)\)/): the leftmost match; group 1 runs to
\* the first "]", group 2 to the first ")".
MarkdownLinkEnd(s, i) ==
    LET r == RunNotIn(s, i + 1, {"]"})
        close == {j \in (r + 3)..Len(s) : s[j] = ")"}
    IN  IF /\ s[i] = "["
           /\ r >= i + 1
           /\ PairAt(s, r + 1, "]", "(")
           /\ close # {}
        THEN MinOf(close) ELSE 0

MarkdownLinkMatch(s) ==
    LET starts == {i \in 1..Len(s) : MarkdownLinkEnd(s, i) # 0}
    IN  IF starts = {} THEN [found |-> FALSE, g1 |-> <<>>, g2 |-> <<>>]
        ELSE LET i == MinOf(starts)
                 r == RunNotIn(s, i + 1, {"]"})
             IN  [found |-> TRUE,
                  g1 |-> SubSeq(s, i + 1, r),
                  g2 |-> SubSeq(s, r + 3, MarkdownLinkEnd(s, i) - 1)]

\* firstPart.replace(/^###\s*/, '')
StripHeadingMarker(s) ==
    IF StartsWith(s, <<"#", "#", "#">>)
    THEN SubSeq(s, RunIn(s, 4, WS) + 1, Len(s))
    ELSE s

\* statusPart.match(/\*\*([^*]+)\*\*/): group 1 of the leftmost match, <<>> when
\* there is none.
StatusLabelMatch(s) ==
    LET ok(i) == /\ PairAt(s, i, "*", "*")
                 /\ RunNotIn(s, i + 2, {"*"}) >= i + 2
                 /\ PairAt(s, RunNotIn(s, i + 2, {"*"}) + 1, "*", "*")
        starts == {i \in 1..Len(s) : ok(i)}
    IN  IF starts = {} THEN <<>>
        ELSE SubSeq(s, MinOf(starts) + 2, RunNotIn(s, MinOf(starts) + 2, {"*"}))

\* (ratingPart.match(/★/g) || []).length
StarCount(s) == Cardinality({i \in 1..Len(s) : s[i] = "@STAR"})

\* Parse title and URL (parts[0]).
PrefillTitleUrl(firstPart) ==
    LET internal == InternalLinkMatch(firstPart)
        link == MarkdownLinkMatch(firstPart)
    IN  IF internal.found
        THEN LET linkPath == internal.g1
                 segs == Split(linkPath, "/")
                 last == segs[Len(segs)]
                 linkTitle == IF internal.g2 # <<>> THEN internal.g2
                              ELSE IF last # <<>> THEN last ELSE linkPath
             IN  [title |-> linkTitle,
                  url |-> linkPath \o (IF EndsWith(linkPath, <<".md">>) THEN <<>> ELSE <<".md">>)]
        ELSE IF link.found
             THEN [title |-> link.g1, url |-> link.g2]
             ELSE [title |-> StripHeadingMarker(firstPart), url |-> <<>>]

\* A faulty variant: an icon that is not known selects the last type.
PrefillTypeLastOnUnknown(typePart, current) ==
    LET typeIcon == SubSeq(typePart, 1, RunNotIn(typePart, 1, WS))
        IsIcon(t) == <<t.icon>> = typeIcon
        i == FindIndex(TYPE_OPTIONS, IsIcon)
    IN  IF typeIcon # <<>> /\ i # -1 THEN TYPE_OPTIONS[i + 1].key
        ELSE TYPE_OPTIONS[Len(TYPE_OPTIONS)].key

\* Parse type (parts[1]): the select keeps its value unless the icon is known.
PrefillType(typePart, current) ==
    LET typeIcon == SubSeq(typePart, 1, RunNotIn(typePart, 1, WS))
        IsIcon(t) == <<t.icon>> = typeIcon
        i == FindIndex(TYPE_OPTIONS, IsIcon)
    IN  IF typeIcon # <<>> /\ i # -1 THEN TYPE_OPTIONS[i + 1].key ELSE current

\* Parse status (parts[2]).
PrefillStatus(statusPart, current) ==
    LET statusLabel == StatusLabelMatch(statusPart)
        IsLabel(s) == s.label = statusLabel
        i == FindIndex(STATUS_ORDER, IsLabel)
    IN  IF statusLabel # <<>> /\ i # -1 THEN STATUS_ORDER[i + 1].key ELSE current

\* The fields of the form once onOpen has prefilled it from initialLine.
Prefill(initialLine) ==
    LET raw == Split(initialLine, "|")
        parts == [i \in 1..Len(raw) |-> Trim(raw[i])]
        tu == PrefillTitleUrl(parts[1])
    IN  [type |-> IF Len(parts) > 1 THEN PrefillType(parts[2], BlankForm.type) ELSE BlankForm.type,
         title |-> tu.title,
         url |-> tu.url,
         status |-> IF Len(parts) > 2 THEN PrefillStatus(parts[3], BlankForm.status)
                    ELSE BlankForm.status,
         stars |-> IF Len(parts) > 3 THEN StarCount(parts[4]) ELSE BlankForm.stars]

----------------------------------------------------------------------------
(* The status cycle: lines 123-125 of the cycle-ref-status callback.       *)

\* /\|\s+\S+\s+\*\*.+?\*\*/ tried at index i, where a "|" stands.  Each run is
\* followed by a token of the other class, so each run is the longest one:
\* the icon token \S+ runs from StatusIconFrom to StatusIconTo, and the opening
\* emphasis marker is looked for at StatusOpenAt.
StatusIconFrom(s, i) == RunIn(s, i + 1, WS) + 1

StatusIconTo(s, i) == RunNotIn(s, StatusIconFrom(s, i), WS)

StatusOpenAt(s, i) == RunIn(s, StatusIconTo(s, i) + 1, WS) + 1

\* The index of the last token of the match at i, 0 when the pattern does not
\* match there; .+? takes the fewest tokens that let the match end.
StatusSpanEnd(s, i) ==
    LET open == StatusOpenAt(s, i)
        close == {e \in (open + 3)..Len(s) : PairAt(s, e, "*", "*")}
    IN  IF /\ s[i] = "|"
           /\ StatusIconFrom(s, i) > i + 1
           /\ StatusIconTo(s, i) >= StatusIconFrom(s, i)
           /\ open > StatusIconTo(s, i) + 1
           /\ PairAt(s, open, "*", "*")
           /\ close # {}
        THEN MinOf(close) + 1 ELSE 0

\* The first index at which the pattern matches, 0 when it matches nowhere.
StatusSpanStart(s) ==
    LET starts == {i \in 1..Len(s) : StatusSpanEnd(s, i) # 0}
    IN  IF starts = {} THEN 0 ELSE MinOf(starts)

\* line.replace(pattern, text): the first match replaced, the rest kept.
ReplaceStatusSpan(s, text) ==
    LET i == StatusSpanStart(s)
    IN  IF i = 0 THEN s
        ELSE SubSeq(s, 1, i - 1) \o text \o SubSeq(s, StatusSpanEnd(s, i) + 1, Len(s))

\* A faulty variant: a label that is not found counts as the first entry.
CurrentStatusIndexFromZero(line) ==
    LET Shown(s) == Includes(line, <<"*", "*">> \o s.label \o <<"*", "*">>)
        i == FindIndex(STATUS_ORDER, Shown)
    IN  IF i = -1 THEN 0 ELSE i

\* STATUS_ORDER.findIndex(s => line.includes(`**${s.label}**`))
CurrentStatusIndex(line) ==
    LET Shown(s) == Includes(line, <<"*", "*">> \o s.label \o <<"*", "*">>)
    IN  FindIndex(STATUS_ORDER, Shown)

\* A faulty variant: the next entry without the wrap, held at the last one.
NextStatusNoWrap(line) ==
    LET i == CurrentStatusIndex(line) + 1
    IN  STATUS_ORDER[IF i >= Len(STATUS_ORDER) THEN Len(STATUS_ORDER) ELSE i + 1]

\* STATUS_ORDER[(currIdx + 1) % STATUS_ORDER.length]
NextStatus(line) == STATUS_ORDER[((CurrentStatusIndex(line) + 1) % Len(STATUS_ORDER)) + 1]

\* A faulty variant: the replacement text without its separator.
advanceStatusNoSeparator(line) ==
    LET next == NextStatus(line)
    IN  ReplaceStatusSpan(line, <<next.icon, " ", "*", "*">> \o next.label \o <<"*", "*">>)

advanceStatus(line) ==
    LET next == NextStatus(line)
    IN  ReplaceStatusSpan(line, <<"|", " ", next.icon, " ", "*", "*">> \o next.label \o <<"*", "*">>)

----------------------------------------------------------------------------
(* The editor (obsidian Editor) on a sequence of lines.  A position past   *)
(* the end of the document, or past the end of its line, is clipped to it. *)

\* editor.getLine(n); "" for a line that does not exist
getLine(d, n) == IF n >= 0 /\ n < Len(d) THEN d[n + 1] ELSE <<>>

\* editor.setLine(n, text)
setLine(d, n, text) == [d EXCEPT ![n + 1] = text]

\* editor.lastLine()
lastLine(d) == Len(d) - 1

\* editor.replaceRange('\n' + text, {line: n, ch: <end of line>}): a new line
\* holding text directly after line n.
insertLineAfter(d, n, text) == SubSeq(d, 1, n + 1) \o <<text>> \o SubSeq(d, n + 2, Len(d))

\* editor.replaceRange('', {line: n, ch: 0}, {line: n + 1, ch: 0}): line n and
\* its line break go; on the last line the end position is clipped to the end
\* of the document, so the line is emptied and stays.
removeLine(d, n) ==
    IF n + 1 <= lastLine(d)
    THEN SubSeq(d, 1, n) \o SubSeq(d, n + 2, Len(d))
    ELSE setLine(d, n, <<>>)

\* line.trim().startsWith('###')
IsReferenceLine(line) == StartsWith(Trim(line), <<"#", "#", "#">>)

HEADING == <<"#", "#", " ", "References">>

\* /## References/.test(l)
IsSectionHeading(line) == Includes(line, HEADING)

\* /## References/.test(doc)
HasSection(d) == \E i \in 1..Len(d) : IsSectionHeading(d[i])

\* lines.findIndex(l => /## References/.test(l)), from 0; -1 when absent
SectionIndex(d) ==
    LET at == {i \in 1..Len(d) : IsSectionHeading(d[i])}
    IN  IF at = {} THEN -1 ELSE MinOf(at) - 1

----------------------------------------------------------------------------
(* ReferenceModal.insertLine and ReferenceModal.replaceLine.               *)

\* editor.replaceRange('\n## References\n', {line: editor.lastLine() + 1, ch: 0})
\* when the document has no section heading.
ensureSection(d) == IF HasSection(d) THEN d ELSE d \o <<HEADING, <<>>>>

\* The while loop of insertLine: from pos (from 0), past each line that starts
\* with '###' and the non-blank line after it that does not.
RECURSIVE skipRecords(_, _)
skipRecords(lines, pos) ==
    IF pos < Len(lines) /\ StartsWith(lines[pos + 1], <<"#", "#", "#">>)
    THEN LET p == pos + 1
         IN  IF /\ p < Len(lines)
                /\ ~StartsWith(lines[p + 1], <<"#", "#", "#">>)
                /\ Trim(lines[p + 1]) # <<>>
             THEN skipRecords(lines, p + 1)
             ELSE skipRecords(lines, p)
    ELSE pos

\* A faulty variant: the span always goes directly under the heading.
insertPositionUnderHeading(lines) == SectionIndex(lines) + 1

\* The line index (from 0) at which insertLine splices the span.
insertPosition(lines) == skipRecords(lines, SectionIndex(lines) + 1)

insertLine(d, data) ==
    LET lines == ensureSection(d)
        insertPos == insertPosition(lines)
    IN  SubSeq(lines, 1, insertPos) \o buildLine(data) \o SubSeq(lines, insertPos + 1, Len(lines))

replaceLine(d, lineNum, data) ==
    LET refLines == buildLine(data)
        d1 == setLine(d, lineNum, refLines[1])
        below == getLine(d1, lineNum + 1)
    IN  IF below # <<>> /\ ~StartsWith(below, <<"#", "#", "#">>)
        THEN setLine(d1, lineNum + 1, refLines[2])
        ELSE insertLineAfter(d1, lineNum, refLines[2])

----------------------------------------------------------------------------
(* State and handlers.                                                     *)

\* No modal on screen.
ClosedModal == [open |-> FALSE, editing |-> FALSE, editLine |-> 0, form |-> BlankForm]

\* hist.base is the document the behaviour started from; while no handler but
\* insertLine has changed the document since (hist.onlyInserts), hist.calls are
\* the data of the insertLine calls so far, in call order.
NoteInsert(data) == [hist EXCEPT !.calls = IF hist.onlyInserts THEN Append(@, data) ELSE @]

NoteOtherChange(newDoc) ==
    IF newDoc = doc THEN hist ELSE [hist EXCEPT !.calls = <<>>, !.onlyInserts = FALSE]

NoHistory(d) == [base |-> d, calls |-> <<>>, onlyInserts |-> TRUE]

IdleAdv == [orig |-> <<>>, prev |-> <<>>, line |-> <<>>, n |-> 0]

\* add-reference: a ReferenceModal with no edit line; onOpen leaves the form
\* blank and sets the type to 'plain-note'.
AddReference ==
    /\ ~modal.open
    /\ modal' = [open |-> TRUE, editing |-> FALSE, editLine |-> 0,
                 form |-> [BlankForm EXCEPT !.type = "plain-note"]]
    /\ UNCHANGED <<doc, notice, hist, adv>>

\* A faulty variant: the cursor line is taken as it is, the line above is
\* never looked at.
editTargetCursorOnly(d, c) == c

\* The line the edit-reference callback settles on for a cursor on line c: the
\* cursor line, or the line above when the cursor line is no reference line
\* and the line above is one.
editTarget(d, c) ==
    IF ~IsReferenceLine(getLine(d, c)) /\ c > 0 /\ IsReferenceLine(getLine(d, c - 1))
    THEN c - 1 ELSE c

\* edit-reference with the cursor on line c
EditReference(c) ==
    /\ ~modal.open
    /\ c \in 0..lastLine(doc)
    /\ LET lineNum == editTarget(doc, c)
           line == getLine(doc, lineNum)
       IN  IF ~IsReferenceLine(line)
           THEN /\ notice' = <<"Place cursor on a reference line.">>
                /\ UNCHANGED modal
           ELSE /\ modal' = [open |-> TRUE, editing |-> TRUE, editLine |-> lineNum,
                             form |-> Prefill(line)]
                /\ UNCHANGED notice
    /\ UNCHANGED <<doc, hist, adv>>

\* delete-reference with the cursor on line c
DeleteReference(c) ==
    /\ ~modal.open
    /\ c \in 0..lastLine(doc)
    /\ IF ~IsReferenceLine(getLine(doc, c))
       THEN /\ notice' = <<"Place cursor on a reference line.">>
            /\ UNCHANGED <<doc, hist>>
       ELSE /\ doc' = removeLine(doc, c)
            /\ notice' = <<"Reference deleted.">>
            /\ hist' = NoteOtherChange(doc')
    /\ UNCHANGED <<modal, adv>>

\* cycle-ref-status with the cursor on line c
CycleRefStatus(c) ==
    /\ ~modal.open
    /\ c \in 0..lastLine(doc)
    /\ LET line == getLine(doc, c)
       IN  IF ~IsReferenceLine(line)
           THEN /\ notice' = <<"Place cursor on a reference line.">>
                /\ UNCHANGED <<doc, hist>>
           ELSE /\ doc' = setLine(doc, c, advanceStatus(line))
                /\ notice' = <<"Status ->">> \o NextStatus(line).label
                /\ hist' = NoteOtherChange(doc')
    /\ UNCHANGED <<modal, adv>>

\* The user sets the type, title, URL and status fields of the open form.
InputFields(f) ==
    /\ modal.open
    /\ modal' = [modal EXCEPT !.form = [type |-> f.type, title |-> f.title, url |-> f.url,
                                        status |-> f.status, stars |-> @.stars]]
    /\ UNCHANGED <<doc, notice, hist, adv>>

\* star.onclick of star i (from 0)
StarClick(i) ==
    /\ modal.open
    /\ modal' = [modal EXCEPT !.form.stars = i + 1]
    /\ UNCHANGED <<doc, notice, hist, adv>>

\* The ReferenceData submit.onclick builds from the form.
formData(form) ==
    [type |-> form.type, title |-> Trim(form.title), url |-> Trim(form.url),
     status |-> form.status, stars |-> form.stars]

\* submit.onclick, the document kept within limit lines.  When starString
\* throws, insertLine has already put the missing heading in, replaceLine has
\* changed nothing, and the modal stays open.
Submit(limit) ==
    /\ modal.open
    /\ LET data == formData(modal.form)
       IN  IF starStringThrows(data.stars)
           THEN /\ doc' = IF modal.editing THEN doc ELSE ensureSection(doc)
                /\ notice' = <<"Uncaught RangeError">>
                /\ hist' = NoteOtherChange(doc')
                /\ UNCHANGED modal
           ELSE /\ doc' = IF modal.editing THEN replaceLine(doc, modal.editLine, data)
                          ELSE insertLine(doc, data)
                /\ notice' = IF modal.editing THEN <<"Reference updated.">>
                             ELSE <<"Reference added.">>
                /\ hist' = IF modal.editing THEN NoteOtherChange(doc') ELSE NoteInsert(data)
                /\ modal' = ClosedModal
    /\ Len(doc') <= limit
    /\ UNCHANGED adv

\* The modal dismissed without submitting.
CloseModal ==
    /\ modal.open
    /\ modal' = ClosedModal
    /\ UNCHANGED <<doc, notice, hist, adv>>

\* Lines 123-125 applied to a line on its own.
AdvanceStatus ==
    /\ adv' = [orig |-> adv.orig, prev |-> adv.line, line |-> advanceStatus(adv.line),
               n |-> adv.n + 1]
    /\ UNCHANGED <<doc, modal, notice, hist>>

----------------------------------------------------------------------------
(* Inputs.                                                                 *)

TextLine == <<"note">>

Blank == <<>>

\* The fields f with a rating of n stars.
Rated(f, n) ==
    [type |-> f.type, title |-> f.title, url |-> f.url, status |-> f.status, stars |-> n]

VideoA == [type |-> "video", title |-> <<"a">>, url |-> <<"u">>, status |-> "completed"]

PageB == [type |-> "web-page", title |-> <<"b">>, url |-> <<>>, status |-> "skimmed"]

SpanA == buildLine(Rated(VideoA, 3))

SpanB == buildLine(Rated(PageB, 0))

Start(d) ==
    /\ doc = d
    /\ modal = ClosedModal
    /\ notice = <<>>
    /\ hist = NoHistory(d)
    /\ adv = IdleAdv

----------------------------------------------------------------------------
(* Spec: every command on a short document.                                *)

MaxLines == 5

\* What the user enters into the form.
DocInputs == {VideoA}

\* The stars the user clicks (from 0).
DocStarClicks == {2}

InitDocs ==
    { <<HEADING>>,                                    \* a bare heading
      <<TextLine, HEADING>> \o SpanA,                 \* one record
      <<HEADING, SpanA[1]>>,                          \* a header on the last line
      <<HEADING, SpanA[1]>> \o SpanB,                 \* a header right below a header
      <<HEADING, SpanA[1], Blank, TextLine>> }        \* a blank line below a header

Init == \E d \in InitDocs : Start(d)

Next ==
    \/ AddReference
    \/ \E c \in 0..(MaxLines - 1) : EditReference(c)
    \/ \E c \in 0..(MaxLines - 1) : DeleteReference(c)
    \/ \E c \in 0..(MaxLines - 1) : CycleRefStatus(c)
    \/ \E f \in DocInputs : InputFields(f)
    \/ \E i \in DocStarClicks : StarClick(i)
    \/ Submit(MaxLines)
    \/ CloseModal

Spec == Init /\ [][Next]_vars

----------------------------------------------------------------------------
(* SpecInsert: references added, one after another, to hand-written        *)
(* documents.                                                              *)

MaxInsertLines == 7

InsertInputs == {VideoA, PageB}

InsertStarClicks == {2}

InsertDocs ==
    { <<TextLine>>,                                   \* no section, no final line break
      <<TextLine, Blank>>,                            \* no section, final line break
      <<HEADING>>,                                    \* a bare heading
      <<TextLine, HEADING, Blank, TextLine>>,         \* an empty section, text below
      <<HEADING, TextLine>>,                          \* an empty section, text right below
      <<HEADING, Blank>> \o SpanA,                    \* a blank line above the first record
      <<HEADING>> \o SpanA \o <<Blank, SpanB[1]>>,    \* records a blank line apart
      <<HEADING>> \o SpanA \o <<TextLine>>,           \* two lines below a header
      <<HEADING, <<" ">> \o SpanA[1], SpanA[2]>> }    \* an indented header

InitInsert == \E d \in InsertDocs : Start(d)

NextInsert ==
    \/ AddReference
    \/ \E f \in InsertInputs : InputFields(f)
    \/ \E i \in InsertStarClicks : StarClick(i)
    \/ Submit(MaxInsertLines)
    \/ CloseModal

SpecInsert == InitInsert /\ [][NextInsert]_vars

----------------------------------------------------------------------------
(* SpecCodec: one reference added under a bare heading, then opened for    *)
(* editing and saved.                                                      *)

MaxCodecLines == 3

Titles ==
    { <<"a">>, <<"a", " ", "b">>, <<"n">>, <<"m">>,
      <<"a", "|", "b">>, <<"a", "]", "b">>, <<"a", ")", "b">> }

Urls ==
    { <<>>, <<"u">>, <<"u", ")", "v">>, <<"n", ".md">>, <<"d", "/", "m", ".md">>, <<"x", ".md">> }

\* Every type with every status, and every title with every URL.
CodecInputs ==
    [type : TypeKeys, title : {<<"a">>}, url : {<<"u">>}, status : StatusKeys]
        \cup [type : {"plain-note", "web-page"}, title : Titles, url : Urls, status : {"skimmed"}]

CodecStarClicks == 0..4

InitCodec == Start(<<HEADING>>)

NextCodec ==
    \/ Len(doc) + 2 <= MaxCodecLines /\ AddReference
    \/ \E c \in 0..(MaxCodecLines - 1) : EditReference(c)
    \/ \E f \in CodecInputs : ~modal.editing /\ InputFields(f)
    \/ \E i \in CodecStarClicks : ~modal.editing /\ StarClick(i)
    \/ Submit(MaxCodecLines)
    \/ CloseModal

SpecCodec == InitCodec /\ [][NextCodec]_vars

----------------------------------------------------------------------------
(* SpecAdvance: the status cycle applied again and again to one line.      *)

MaxAdvance == 7

\* The detail line of every type, status and rating.
EncodedDetailLines ==
    { buildLine([type |-> t, title |-> <<"a">>, url |-> <<"u">>, status |-> s, stars |-> n])[2] :
        t \in TypeKeys, s \in StatusKeys, n \in 0..5 }

\* Lines written or changed by hand.
HandEditedLines ==
    { <<"@camera", " ", "Video", " ", "|", " ", "@x", " ", "*", "*", "Done", "*", "*", " ", "|", " ", "@STAR">>,
      <<"@camera", " ", "Video", " ", "|", " ", " ", "@check", " ", " ", " ", "*", "*", "Completed", "*", "*",
        " ", "|", " ", "@STAR">>,
      <<"@camera", " ", "Video", " ", "|", " ", "@check", " ", "*", "*", "Completed", "*", "*">>,
      <<"@camera", " ", "*", "*", "Skimmed", "*", "*", " ", "|", " ", "@check", " ", "*", "*", "Completed",
        "*", "*", " ", "|", " ", "@STAR">>,
      <<"@camera", " ", "Video", " ", "|", " ", "@check", " ", "Completed", " ", "|", " ", "@STAR">>,
      <<"#", "#", "#", " ", "[", "a", "]", "(", "u", ")">>,
      <<"#", "#", "#", " ", "a", " ", "|", " ", "@camera", " ", "Video", " ", "|", " ", "@glass", " ",
        "*", "*", "Skimmed", "*", "*", " ", "|", " ", "@STAR">> }

AdvanceInputs == EncodedDetailLines \cup HandEditedLines

InitAdvance ==
    /\ doc = <<HEADING>>
    /\ modal = ClosedModal
    /\ notice = <<>>
    /\ hist = NoHistory(doc)
    /\ \E line \in AdvanceInputs : adv = [orig |-> line, prev |-> line, line |-> line, n |-> 0]

NextAdvance == adv.n < MaxAdvance /\ AdvanceStatus

SpecAdvance == InitAdvance /\ [][NextAdvance]_vars

----------------------------------------------------------------------------
(* SpecDecode: the edit form opened on a hand-written line and saved as it *)
(* is.  The lines carry their fields the way onOpen reads them: the header *)
(* text, then type, status and rating, a separator between them.            *)

MaxDecodeLines == 3

H3 == <<"#", "#", "#", " ">>

DecodeHeaders ==
    { H3 \o <<"a">>,                                            \* a bare title
      H3 \o <<"[", "a", "]", "(", "u", ")">>,                   \* a markdown link
      H3 \o <<"[", "[", "n", "]", "]">>,                        \* a note of the vault
      H3 \o <<"[", "[", "d", "/", "m", "]", "]">>,              \* a note in a folder
      H3 \o <<"[", "[", "x", ".md", "]", "]">>,                 \* a path with its extension
      H3 \o <<"[", "[", "/", "]", "]">> }                       \* a path with no last segment

DecodeTypeFields ==
    { <<"@camera", " ", "Video">>,                              \* a known icon
      <<"@x", " ", "Video">>,                                   \* an unknown icon
      <<"Video">>,                                              \* no icon
      <<>> }

DecodeStatusFields ==
    { <<"@check", " ", "*", "*", "Completed", "*", "*">>,       \* a known label
      <<"@check", " ", "*", "*", "Done", "*", "*">>,            \* an unknown label
      <<"@check", " ", "Completed">>,                           \* no emphasis
      <<>> }

DecodeRatingFields ==
    { <<"@circle", " ", "Not", " ", "Rated">>,
      <<"@STAR", "@STAR", "@STAR", "@star", "@star">>,
      <<"@STAR", "@STAR", "@STAR", "@STAR", "@STAR", "@STAR">>, \* six stars, written by hand
      <<>> }

Sep == <<" ", "|", " ">>

\* The header text alone, and with one, two and three fields after it.
DecodeLines ==
    DecodeHeaders
      \cup { h \o Sep \o t : h \in DecodeHeaders, t \in DecodeTypeFields }
      \cup { h \o Sep \o t \o Sep \o s :
               h \in DecodeHeaders, t \in DecodeTypeFields, s \in DecodeStatusFields }
      \cup { h \o Sep \o t \o Sep \o s \o Sep \o r :
               h \in DecodeHeaders, t \in DecodeTypeFields, s \in DecodeStatusFields,
               r \in DecodeRatingFields }

InitDecode == \E line \in DecodeLines : Start(<<HEADING, line>>)

NextDecode ==
    \/ \E c \in 0..(MaxDecodeLines - 1) : EditReference(c)
    \/ Submit(MaxDecodeLines)
    \/ CloseModal

SpecDecode == InitDecode /\ [][NextDecode]_vars

----------------------------------------------------------------------------
(* The claims.                                                             *)

\* The two lines of the document from line h on.
SpanAt(d, h) == <<getLine(d, h), getLine(d, h + 1)>>

\* A record of the data model: known keys, a rating of 0 to 5.
ValidRecord(r) == r.type \in TypeKeys /\ r.status \in StatusKeys /\ r.stars \in 0..5

\* A step in which the edit command opens the form.
EditOpens == ~modal.open /\ modal'.open /\ modal'.editing

\* The records insertLine has written whose span stands at the line the form
\* was opened on.
EditedCalls == {k \in 1..Len(hist.calls) : SpanAt(doc, modal'.editLine) = buildLine(hist.calls[k])}

\* C1: whenever the edit command opens the form on the span that encode wrote
\* for a valid record r, the form shows the type, the status and the rating
\* of r.
C1_RoundTripTypeStatusRating ==
    [][EditOpens =>
         \A k \in EditedCalls :
            LET r == hist.calls[k]
            IN  ValidRecord(r) =>
                  /\ modal'.form.type = r.type
                  /\ modal'.form.status = r.status
                  /\ modal'.form.stars = r.stars]_vars

\* C2: whenever the edit command opens the form on the span that encode wrote
\* for a record r that is no plain-note, or whose target is no note of the
\* vault, the form shows the title and the target of r.
C2_RoundTripTitleTarget ==
    [][EditOpens =>
         \A k \in EditedCalls :
            LET r == hist.calls[k]
            IN  (r.type # "plain-note" \/ r.url \notin VaultFiles) =>
                  /\ modal'.form.title = r.title
                  /\ modal'.form.url = r.url]_vars

\* The text of a status field: the icon and the emphasised label of entry k.
StatusText(k) ==
    <<STATUS_ORDER[k].icon, " ", "*", "*">> \o STATUS_ORDER[k].label \o <<"*", "*">>

\* The fields of a detail line, as the text between its separators.
Fields(line) == Split(line, "|")

\* The detail line x with the status field of entry k in place of its own.
WithStatus(x, k) == Fields(x)[1] \o <<"|", " ">> \o StatusText(k) \o <<" ", "|">> \o Fields(x)[3]

\* The entries whose status field the detail line x holds.
StatusOf(x) == {k \in 1..Len(STATUS_ORDER) : Len(Fields(x)) = 3 /\ x = WithStatus(x, k)}

\* C3: from a detail line that encode wrote, every application of advanceStatus
\* leaves the type field, the rating field and the separators as they were,
\* and the seventh application brings the original status field back.
C3_SevenAdvancesReturn ==
    adv.orig \in EncodedDetailLines =>
        /\ \E k \in 1..Len(STATUS_ORDER) : adv.line = WithStatus(adv.orig, k)
        /\ adv.n = Len(STATUS_ORDER) => adv.line = adv.orig

\* C3 witness: seven applications made to an encoded line that shows Completed.
C3_Witness ==
    /\ adv.orig \in EncodedDetailLines
    /\ adv.n = Len(STATUS_ORDER)
    /\ StatusOf(adv.orig) = {5}
    /\ adv.prev # adv.orig
    /\ adv.line = adv.orig

\* A line on which advanceStatus rewrites something: the pattern matches.
Rewrites(x) == StatusSpanStart(x) # 0

\* The line x with the matched span replaced by the separator and the status
\* field of entry k.
SpanReplaced(x, k) ==
    SubSeq(x, 1, StatusSpanStart(x) - 1) \o <<"|", " ">> \o StatusText(k)
        \o SubSeq(x, StatusSpanEnd(x, StatusSpanStart(x)) + 1, Len(x))

\* The known labels that occur, emphasised, somewhere in x.
KnownLabels(x) ==
    {k \in 1..Len(STATUS_ORDER) : Includes(x, <<"*", "*">> \o STATUS_ORDER[k].label \o <<"*", "*">>)}

\* C4: applied to a detail line of the format whose status field holds entry
\* i (from 0), advanceStatus writes the icon and label of entry (i+1) mod 7;
\* applied to a line in which no known emphasised label occurs and the
\* pattern matches, it writes the first entry.
C4_SuccessorRule ==
    adv.n > 0 =>
        /\ \A k \in 1..Len(STATUS_ORDER) :
              (adv.prev \in EncodedDetailLines /\ StatusOf(adv.prev) = {k}) =>
                  adv.line = WithStatus(adv.prev, (k % Len(STATUS_ORDER)) + 1)
        /\ (Rewrites(adv.prev) /\ KnownLabels(adv.prev) = {}) =>
              adv.line = SpanReplaced(adv.prev, 1)

\* C4 witness: Needs Review, the last entry, has just been advanced to Saved.
C4_Witness ==
    /\ adv.n > 0
    /\ adv.prev \in EncodedDetailLines
    /\ StatusOf(adv.prev) = {Len(STATUS_ORDER)}
    /\ StatusOf(adv.line) = {1}

\* C4 witness of the second case: an unknown label has just been rewritten.
C4_WitnessUnknown ==
    /\ adv.n = 1
    /\ Rewrites(adv.prev)
    /\ KnownLabels(adv.prev) = {}
    /\ adv.line # adv.prev

\* C5 as claimed: on every line it rewrites, advanceStatus changes the icon
\* token and the text between the emphasis markers and nothing else; the
\* separator and each whitespace run of the span stay as they were.
C5_OnlyIconAndLabelChange ==
    (adv.n > 0 /\ Rewrites(adv.prev)) =>
        LET x == adv.prev
            i == StatusSpanStart(x)
        IN  \E k \in 1..Len(STATUS_ORDER) :
               adv.line = SubSeq(x, 1, StatusIconFrom(x, i) - 1) \o <<STATUS_ORDER[k].icon>>
                            \o SubSeq(x, StatusIconTo(x, i) + 1, StatusOpenAt(x, i) + 1)
                            \o STATUS_ORDER[k].label
                            \o SubSeq(x, StatusSpanEnd(x, i) - 1, Len(x))

\* C5 as amended: on every line it rewrites, advanceStatus changes one stretch
\* that runs from a separator to a closing emphasis marker, and puts in its
\* place the separator, one space, an icon, one space and an emphasised label
\* of the status list; the text before and after the stretch stays as it was.
C5_OnlyStatusSpanChanges ==
    (adv.n > 0 /\ Rewrites(adv.prev)) =>
        LET x == adv.prev
        IN  \E k \in 1..Len(STATUS_ORDER) :
            \E i \in 1..Len(x) :
            \E e \in (i + 1)..Len(x) :
               /\ x[i] = "|"
               /\ PairAt(x, e - 1, "*", "*")
               /\ adv.line = SubSeq(x, 1, i - 1) \o <<"|", " ">> \o StatusText(k)
                                \o SubSeq(x, e + 1, Len(x))

\* C5 witness: a hand-edited line with runs of two and three spaces in its
\* status span has been rewritten, and text follows the span.
C5_Witness ==
    /\ adv.n = 1
    /\ Rewrites(adv.prev)
    /\ adv.prev \notin EncodedDetailLines
    /\ StatusIconFrom(adv.prev, StatusSpanStart(adv.prev)) > StatusSpanStart(adv.prev) + 2
    /\ StatusSpanEnd(adv.prev, StatusSpanStart(adv.prev)) < Len(adv.prev)
    /\ adv.line # adv.prev

\* C6: the delete command, accepted on header line c with a line below it,
\* leaves the document without its lines c and c+1, the others in order.
C6_DeleteRemovesTwoLines ==
    [][\A c \in 0..(MaxLines - 1) :
          (DeleteReference(c) /\ IsReferenceLine(getLine(doc, c)) /\ c + 1 <= lastLine(doc)) =>
              doc' = SubSeq(doc, 1, c) \o SubSeq(doc, c + 3, Len(doc))]_vars

\* A step in which submit.onclick adds a reference.
SubmitsInsert == Submit(MaxInsertLines) /\ ~modal.editing

\* The lines of a sequence of records, span after span.
RECURSIVE SpanLines(_)
SpanLines(calls) ==
    IF calls = <<>> THEN <<>> ELSE buildLine(Head(calls)) \o SpanLines(Tail(calls))

\* A document with no record in its section: no heading at all, or no
\* reference line below the heading.
EmptySection(d) ==
    HasSection(d) => \A i \in (SectionIndex(d) + 2)..Len(d) : ~IsReferenceLine(d[i])

\* C7: when only insertLine has changed a document that began with an empty
\* section, the spans of its calls stand directly under the heading, in call
\* order, each header followed by its own detail line; the lines of the first
\* document keep their places around them.
C7_InsertionOrder ==
    (hist.onlyInserts /\ EmptySection(hist.base) /\ hist.calls # <<>>) =>
        LET healed == IF HasSection(hist.base) THEN hist.base
                      ELSE hist.base \o <<HEADING, Blank>>
            h == SectionIndex(healed) + 1
        IN  doc = SubSeq(healed, 1, h) \o SpanLines(hist.calls) \o SubSeq(healed, h + 1, Len(healed))

\* C7 witness: three references, the first two different, added to a document
\* that began with an empty section.
C7_Witness ==
    /\ hist.onlyInserts
    /\ EmptySection(hist.base)
    /\ Len(hist.calls) = 3
    /\ hist.calls[1] # hist.calls[2]
    /\ SubSeq(doc, 2, 7) = SpanLines(hist.calls)

\* The reference lines of the section of d (indices from 1).
RecordHeaders(d) == {i \in (SectionIndex(d) + 2)..Len(d) : IsReferenceLine(d[i])}

\* The index of the last line attached to the header at i: the header and the
\* non-blank lines below it that are no reference lines.
AttachedEnd(d, i) ==
    LET stop == {j \in (i + 1)..Len(d) : Trim(d[j]) = <<>> \/ IsReferenceLine(d[j])}
    IN  IF stop = {} THEN Len(d) ELSE MinOf(stop) - 1

\* C8: insertLine on a document that has a section heading puts the new span
\* below every record of the section and the lines attached to it.
C8_InsertAfterLastRecord ==
    [][(SubmitsInsert /\ HasSection(doc)) =>
         \E p \in 0..Len(doc) :
            /\ doc' = SubSeq(doc, 1, p) \o buildLine(formData(modal.form)) \o SubSeq(doc, p + 1, Len(doc))
            /\ \A i \in RecordHeaders(doc) : AttachedEnd(doc, i) <= p]_vars

\* C9: insertLine on a document with no section heading reports no error and
\* leaves the original lines, a blank line (the last original line when that
\* one is blank), one heading, and the span directly under it.
C9_MissingSectionHealed ==
    [][(SubmitsInsert /\ ~HasSection(doc)) =>
         LET span == buildLine(formData(modal.form))
             kept == IF doc[Len(doc)] = Blank THEN doc ELSE doc \o <<Blank>>
         IN  /\ notice' = <<"Reference added.">>
             /\ StartsWith(doc', kept \o <<HEADING>> \o span)
             /\ Cardinality({i \in 1..Len(doc') : doc'[i] = HEADING}) = 1]_vars

\* C10: replaceLine at header line h writes the new header on line h; when
\* line h+1 exists and is no header line, blank or not, it writes the new
\* detail line on line h+1 and the length stays; otherwise it puts the detail
\* line in as a new line below h and the length grows by one.
C10_ReplaceRule ==
    [][(Submit(MaxLines) /\ modal.editing /\ ~starStringThrows(modal.form.stars)) =>
         LET h == modal.editLine
             span == buildLine(formData(modal.form))
         IN  IF h + 1 <= lastLine(doc) /\ ~StartsWith(getLine(doc, h + 1), <<"#", "#", "#">>)
             THEN doc' = SubSeq(doc, 1, h) \o span \o SubSeq(doc, h + 3, Len(doc))
             ELSE doc' = SubSeq(doc, 1, h) \o span \o SubSeq(doc, h + 2, Len(doc))]_vars

\* Line i (from 0) of the document is a header line.
HeaderAt(i) == i \in 0..lastLine(doc) /\ IsReferenceLine(getLine(doc, i))

\* The edit command opens the form on line h, which is a header line.
OpensOn(h) ==
    /\ HeaderAt(h)
    /\ modal'.open /\ modal'.editing /\ modal'.editLine = h
    /\ notice' = notice

\* The edit command finds no record and leaves the form closed.
OpensNothing == modal' = modal /\ notice' = <<"Place cursor on a reference line.">>

\* C11: the edit command with the cursor on line c settles on c when line c
\* is a header line, on c-1 when line c is none, c > 0 and line c-1 is one, and
\* on nothing in every other case; the line it settles on is a header line.
C11_ResolveEditTarget ==
    [][\A c \in 0..(MaxLines - 1) :
          EditReference(c) =>
              IF HeaderAt(c) THEN OpensOn(c)
              ELSE IF c > 0 /\ HeaderAt(c - 1) THEN OpensOn(c - 1)
              ELSE OpensNothing]_vars

\* C11 witness: the form is open on a header line that has a detail line right
\* below it and a header line right above it, in a document where a cursor two
\* lines below a header finds nothing.
C11_Witness ==
    /\ modal.open /\ modal.editing
    /\ modal.editLine = 2
    /\ doc = <<HEADING, SpanA[1]>> \o SpanB
    /\ modal.form = Prefill(SpanB[1])

\* The fields of a line as the decoder takes them: the text between the
\* separators, without the whitespace around it.
DecodeFields(line) == [i \in 1..Len(Split(line, "|")) |-> Trim(Split(line, "|")[i])]

\* The types whose icon opens field x, a space or nothing after it.
IconTypes(x) ==
    {i \in 1..Len(TYPE_OPTIONS) :
        /\ x # <<>>
        /\ x[1] = TYPE_OPTIONS[i].icon
        /\ Len(x) > 1 => x[2] \in WS}

\* C12: whenever the edit command opens the form on a line, the form opens
\* (nothing is raised) and each field is decoded on its own: the type is the
\* one whose icon opens the type field, plain-note when there is no such
\* field or icon; the status is the one whose emphasised label stands in the
\* status field, saved when there is none; the rating is 0 when the rating
\* field holds no filled star; the target is empty when the header holds no
\* link.
C12_DecodeTolerance ==
    [][\A c \in 0..(MaxDecodeLines - 1) :
          (EditReference(c) /\ (HeaderAt(c) \/ (c > 0 /\ HeaderAt(c - 1)))) =>
              /\ modal'.open
              /\ LET f == DecodeFields(getLine(doc, modal'.editLine))
                     form == modal'.form
                     types == IF Len(f) > 1 THEN IconTypes(f[2]) ELSE {}
                     statuses == IF Len(f) > 2 THEN KnownLabels(f[3]) ELSE {}
                 IN  /\ form.type \in IF types = {} THEN {"plain-note"}
                                      ELSE {TYPE_OPTIONS[i].key : i \in types}
                     /\ form.status \in IF statuses = {} THEN {"saved"}
                                        ELSE {STATUS_ORDER[k].key : k \in statuses}
                     /\ (Len(f) < 4 \/ ~Includes(f[4], <<"@STAR">>)) => form.stars = 0
                     /\ ~Includes(f[1], <<"[">>) => form.url = <<>>]_vars

\* C12 witness: the form is open on a line whose type icon is unknown and
\* whose header holds no link; it shows the first type and an empty target,
\* and the status and the rating the line holds.
C12_Witness ==
    /\ modal.open /\ modal.editing
    /\ getLine(doc, modal.editLine) =
          H3 \o <<"a">> \o Sep \o <<"@x", " ", "Video">> \o Sep
             \o <<"@check", " ", "*", "*", "Completed", "*", "*">> \o Sep
             \o <<"@STAR", "@STAR", "@STAR", "@star", "@star">>
    /\ modal.form = [type |-> "plain-note", title |-> <<"a">>, url |-> <<>>,
                     status |-> "completed", stars |-> 3]

\* C13: the rating the form holds is an integer from 0 to 5, whatever line the
\* form was opened on.
C13_RatingInRange == modal.form.stars \in 0..5

\* C18: the edit form, opened on any accepted line and submitted as it was
\* opened, raises nothing: the update is reported, the form closes, and a
\* header line and a detail line stand at the line it was opened on.
C18_EditThenSaveTotal ==
    [][(Submit(MaxDecodeLines) /\ modal.editing) =>
          /\ notice' = <<"Reference updated.">>
          /\ ~modal'.open
          /\ modal.editLine + 1 <= lastLine(doc')
          /\ IsReferenceLine(getLine(doc', modal.editLine))
          /\ ~IsReferenceLine(getLine(doc', modal.editLine + 1))]_vars

\* A step in which submit.onclick adds a reference under the bare heading.
SubmitsEncode == Submit(MaxCodecLines) /\ ~modal.editing /\ doc = <<HEADING>>

\* The notes of the vault: <<file path, path without its extension, base name>>.
VaultNotes ==
    { << <<"n", ".md">>, <<"n">>, <<"n">> >>,
      << <<"d", "/", "m", ".md">>, <<"d", "/", "m">>, <<"m">> >> }

\* The link expression the claim gives for record r.
HeaderLinkOf(r) ==
    LET notes == {v \in VaultNotes : v[1] = r.url}
    IN  IF r.type = "plain-note" /\ notes # {}
        THEN LET v == CHOOSE v \in notes : TRUE
             IN  IF r.title = v[3] THEN <<"[", "[">> \o v[2] \o <<"]", "]">>
                 ELSE <<"[", "[">> \o v[2] \o <<"|">> \o r.title \o <<"]", "]">>
        ELSE IF r.url # <<>>
             THEN <<"[">> \o r.title \o <<"]", "(">> \o r.url \o <<")">>
             ELSE r.title

\* C14: the header line insertLine writes for a record is '### ' and then: a
\* vault-internal link (short when the title is the note's base name, long
\* otherwise) for a plain-note whose target is a note of the vault, the link
\* '[title](target)' for any other record with a target, and the bare title
\* for a record with none.
C14_HeaderLinkSelection ==
    [][SubmitsEncode =>
          getLine(doc', 1) = <<"#", "#", "#", " ">> \o HeaderLinkOf(formData(modal.form))]_vars

\* C14 witness: a plain-note pointing at the vault note d/m.md under another
\* title has been added, and its header holds the long internal link.
C14_Witness ==
    /\ hist.calls # <<>>
    /\ hist.calls[1].type = "plain-note"
    /\ hist.calls[1].url = <<"d", "/", "m", ".md">>
    /\ hist.calls[1].title = <<"a">>
    /\ getLine(doc, 1) = <<"#", "#", "#", " ", "[", "[", "d", "/", "m", "|", "a", "]", "]">>

\* The rating glyphs the claim gives for rating n.
RatingGlyphs(n) ==
    IF n = 0 THEN <<"@circle", " ", "Not", " ", "Rated">>
    ELSE [i \in 1..5 |-> IF i <= n THEN "@STAR" ELSE "@star"]

\* The detail line the claim gives for type entry t, status entry k, rating n.
DetailLineOf(t, k, n) ==
    <<TYPE_OPTIONS[t].icon, " ">> \o TYPE_OPTIONS[t].label \o <<" ", "|", " ">>
        \o StatusText(k) \o <<" ", "|", " ">> \o RatingGlyphs(n)

\* C15: the detail line insertLine writes for a record holds the icon and
\* label of its type, the icon and emphasised label of its status and its
\* rating glyphs, ' | ' between them; the line built for keys that are in
\* neither list holds the first type and the first status.
C15_DetailLine ==
    [][SubmitsEncode =>
          LET r == formData(modal.form)
          IN  /\ \E t \in 1..Len(TYPE_OPTIONS) :
                 \E k \in 1..Len(STATUS_ORDER) :
                    /\ TYPE_OPTIONS[t].key = r.type
                    /\ STATUS_ORDER[k].key = r.status
                    /\ getLine(doc', 2) = DetailLineOf(t, k, r.stars)
              /\ buildLine([r EXCEPT !.type = "unknown", !.status = "unknown"])[2]
                    = DetailLineOf(1, 1, r.stars)]_vars

\* C15 witness: a video, completed, three stars, has been added.
C15_Witness ==
    /\ hist.calls # <<>>
    /\ hist.calls[1].type = "video"
    /\ hist.calls[1].status = "completed"
    /\ hist.calls[1].stars = 3
    /\ getLine(doc, 2) = <<"@camera", " ", "Video", " ", "|", " ", "@check", " ", "*", "*", "Completed",
                           "*", "*", " ", "|", " ", "@STAR", "@STAR", "@STAR", "@star", "@star">>

\* The link paths of the vault's notes, and the aliases a link can carry
\* (<<>>: the link has no alias).
LinkPaths == { <<"n">>, <<"d", "/", "m">> }

LinkAliases == { <<>>, <<"a">>, <<"a", " ", "b">>, <<"m">> }

\* The header line that holds the internal link to path p under alias a.
InternalHeader(p, a) ==
    <<"#", "#", "#", " ", "[", "[">> \o p \o (IF a = <<>> THEN <<>> ELSE <<"|">> \o a) \o <<"]", "]">>

\* C16: whenever the edit command opens the form on a header line that holds
\* a vault-internal link, the title shown is the alias of the link, or the
\* last segment of its path when it has none, and the target shown is the
\* path with '.md' after it.
C16_InternalLinkDecode ==
    [][EditOpens =>
          \A p \in LinkPaths :
          \A a \in LinkAliases :
             getLine(doc, modal'.editLine) = InternalHeader(p, a) =>
                 /\ modal'.form.title = IF a # <<>> THEN a ELSE <<p[Len(p)]>>
                 /\ modal'.form.url = p \o <<".md">>]_vars

\* C17: the status command, accepted with the cursor on the header line c of
\* a record whose detail line holds status entry k, changes the document: the
\* detail line then holds the entry after k, the first after the last, and
\* every other line is as it was.
C17_CycleAdvancesRecord ==
    [][\A c \in 0..(MaxLines - 1) :
       \A k \in 1..Len(STATUS_ORDER) :
          (CycleRefStatus(c) /\ HeaderAt(c) /\ StatusOf(getLine(doc, c + 1)) = {k}) =>
              /\ doc' # doc
              /\ doc' = setLine(doc, c + 1,
                                WithStatus(getLine(doc, c + 1), (k % Len(STATUS_ORDER)) + 1))]_vars

\* The label that stands in the span advanceStatus replaces in line x.
SpanLabel(x) ==
    LET i == StatusSpanStart(x)
    IN  SubSeq(x, StatusOpenAt(x, i) + 2, StatusSpanEnd(x, i) - 2)

\* C19: on a line whose replaced span holds the label of entry k and which
\* holds another known emphasised label elsewhere, advanceStatus writes the
\* entry after k.
C19_SuccessorOfSpanLabel ==
    (adv.n > 0 /\ Rewrites(adv.prev)) =>
        \A k \in 1..Len(STATUS_ORDER) :
           (SpanLabel(adv.prev) = STATUS_ORDER[k].label /\ KnownLabels(adv.prev) # {k}) =>
               adv.line = SpanReplaced(adv.prev, (k % Len(STATUS_ORDER)) + 1)

====
